---- MODULE Spec2Model ----
(***************************************************************************)
(* Model of ersilia/core/tracking.py: the session log file                 *)
(* (open/write/close_persistent_file, log_files_metrics), the S3 upload    *)
(* (upload_to_s3) and the RunTracker (start_tracking, check_types,         *)
(* get_peak_memory, track).                                                *)
(*                                                                         *)
(* Text is a sequence of tokens; the token "\n" is the newline character.  *)
(* Python exceptions are strings naming the exception class; None is the   *)
(* string "None".                                                          *)
(***************************************************************************)
EXTENDS Integers, Sequences, FiniteSets, TLC

\* ------------------------------------------------------------ bounds
\* appends to the session file between two opens
MaxWrites == 2
\* largest traced allocation level
MaxLevel == 2
\* largest number of data (non-identifier) columns of a table
MaxCols == 2
None == "None"
NL == "\n"

\* ------------------------------------------------------------ state
VARIABLES
    sessionFile,        \* the file at PERSISTENT_FILE_PATH: [exists, text]
    archive,            \* texts of the files close_persistent_file renamed to
    time_start,         \* RunTracker.time_start: None or a datetime
    memory_usage_start, \* RunTracker.memory_usage_start
    tracing,            \* tracemalloc: is tracing
    current,            \* tracemalloc: traced size now
    peak,               \* tracemalloc: traced peak
    lastOp,             \* the most recent call
    raised,             \* the exception it raised, or None
    retval,             \* what it returned: [type, int, bool, dict]
    effects,            \* what the most recent call did, in order
    failedAt,           \* the step of track that raised, or None
    args,               \* history: the arguments of the most recent call
                        \* and what it found
    issued,             \* history: contents passed to write_persistent_file
                        \* since the most recent open_persistent_file
    openedFor,          \* history: model_id of the most recent open, or None
    windowPeak          \* history: highest traced level since the most
                        \* recent start_tracking

vars == <<sessionFile, archive, time_start, memory_usage_start, tracing,
          current, peak, lastOp, raised, retval, effects, failedAt,
          args, issued, openedFor, windowPeak>>

sessionVars == <<sessionFile, archive, issued, openedFor>>
trackerVars == <<time_start, memory_usage_start>>
mallocVars == <<tracing, current, peak, windowPeak>>

\* ------------------------------------------------------------ text
RECURSIVE Concat(_)
Concat(seqs) ==
    IF seqs = <<>> THEN <<>> ELSE Head(seqs) \o Concat(Tail(seqs))

\* The lines a reader gets from a text: the runs of tokens ended by "\n"
\* (a last run without "\n" is a line too), without their terminators.
RECURSIVE ReadLinesFrom(_, _)
ReadLinesFrom(text, line) ==
    IF text = <<>> THEN (IF line = <<>> THEN <<>> ELSE <<line>>)
    ELSE IF Head(text) = NL THEN <<line>> \o ReadLinesFrom(Tail(text), <<>>)
    ELSE ReadLinesFrom(Tail(text), Append(line, Head(text)))

ReadLines(text) == ReadLinesFrom(text, <<>>)

\* ------------------------------------------------------------ session file
NoFile == [exists |-> FALSE, text |-> <<>>]

\* os.path.isfile(PERSISTENT_FILE_PATH)
isfile(file) == file.exists

SessionHeader(model_id) == <<"Session started for model: ", model_id, NL>>

\* open(PERSISTENT_FILE_PATH, "w") truncates or creates, then the header
open_persistent_file(model_id) ==
    [exists |-> TRUE, text |-> SessionHeader(model_id)]

\* faulty variant: appends without looking whether the file exists ("a" creates it)
write_persistent_file_nocheck(file, contents) ==
    [exists |-> TRUE, text |-> file.text \o contents \o <<NL>>]

write_persistent_file(file, contents) ==
    IF isfile(file)
    THEN [file EXCEPT !.text = file.text \o contents \o <<NL>>]
    ELSE file

\* TEMP_FILE_LOGS = os.path.abspath(""): the current working directory
TEMP_FILE_LOGS == [kind |-> "directory", lines |-> <<>>]

CountWhere(lines, Test(_)) ==
    Cardinality({i \in 1..Len(lines) : Test(lines[i])})

\* log_files_metrics(file): open(file, "r") of a directory raises
\* IsADirectoryError before anything is counted or written. A log line is
\* the set of the markers ("| ERROR", "| WARNING") it contains.
log_files_metrics(logfile, file) ==
    IF logfile.kind = "directory"
    THEN [raised |-> "IsADirectoryError", file |-> file]
    ELSE LET IsError(l) == "| ERROR" \in l
             IsWarning(l) == ~("| ERROR" \in l) /\ "| WARNING" \in l
             error_count == CountWhere(logfile.lines, IsError)
             warning_count == CountWhere(logfile.lines, IsWarning)
             f1 == write_persistent_file(file,
                       <<"Error count: ", ToString(error_count)>>)
             f2 == write_persistent_file(f1,
                       <<"Warning count: ", ToString(warning_count)>>)
         IN [raised |-> None, file |-> f2]

\* close_persistent_file(): [raised, file, archive]
close_persistent_file(file, arch) ==
    IF isfile(file)
    THEN LET m == log_files_metrics(TEMP_FILE_LOGS, file)
         IN IF m.raised # None
            THEN [raised |-> m.raised, file |-> m.file, archive |-> arch]
            ELSE [raised |-> None, file |-> NoFile,
                  archive |-> Append(arch, m.file.text)]
    ELSE [raised |-> None, file |-> file, archive |-> arch]

\* ------------------------------------------------------------ tracemalloc
\* The process-wide tracer: [tracing, current, peak].
TracerOff == [tracing |-> FALSE, current |-> 0, peak |-> 0]

\* tracemalloc.start(): does nothing when tracing already (peak is kept)
tracemalloc_start(tm) ==
    IF tm.tracing THEN tm ELSE [tracing |-> TRUE, current |-> 0, peak |-> 0]

\* tracemalloc.get_traced_memory(): (current, peak); (0, 0) when not tracing
get_traced_memory(tm) ==
    IF tm.tracing THEN <<tm.current, tm.peak>> ELSE <<0, 0>>

\* tracemalloc.stop(): stops tracing and clears what was traced
tracemalloc_stop(tm) == TracerOff

Max(a, b) == IF a >= b THEN a ELSE b

\* ------------------------------------------------------------ RunTracker
\* RunTracker.__init__
NewTracker == [time_start |-> None, memory_usage_start |-> 0]

\* datetime.now(): an opaque timestamp
DatetimeNow == "datetime"

\* start_tracking(self): [self, tm]
start_tracking(self, tm) ==
    LET tm1 == tracemalloc_start(tm)
    IN [self |-> [time_start |-> DatetimeNow,
                  memory_usage_start |-> get_traced_memory(tm1)[1]],
        tm |-> tm1]

\* get_peak_memory(self): [ret, tm]
get_peak_memory(self, tm) ==
    [ret |-> get_traced_memory(tm)[2] - self.memory_usage_start,
     tm |-> tracemalloc_stop(tm)]

\* ------------------------------------------------------------ Python values
\* A str or a list, the two kinds of value the metadata holds.
PyStr(s) == [t |-> "str", s |-> s, items |-> <<>>]
PyList(xs) == [t |-> "list", s |-> "", items |-> xs]

\* the first character of the strings the model uses
FirstChar(s) ==
    CASE s = "Float" -> "F"
      [] s = "Int" -> "I"
      [] s = "List" -> "L"
      [] s = "Single" -> "S"
      [] s = "Matrix" -> "M"
      [] OTHER -> s

\* v[0]: [raised, ret]
Index0(v) ==
    IF v.t = "str"
    THEN IF v.s = "" THEN [raised |-> "IndexError", ret |-> v]
         ELSE [raised |-> None, ret |-> PyStr(FirstChar(v.s))]
    ELSE IF v.items = <<>> THEN [raised |-> "IndexError", ret |-> v]
         ELSE [raised |-> None, ret |-> v.items[1]]

\* a dict is a function from its keys
EmptyDict == [k \in {} |-> PyStr("")]
HasKey(d, k) == k \in DOMAIN d

\* ------------------------------------------------------------ tables
\* A DataFrame: its columns, in order, each [name, dtype], and its length.
Column(name, dtype) == [name |-> name, dtype |-> dtype]
DataFrame(cols, nrows) == [cols |-> cols, nrows |-> nrows]

ColumnNames(df) == {df.cols[i].name : i \in 1..Len(df.cols)}

\* a file for read_csv: unreadable (missing, malformed), or holding a table
BadCsv == [ok |-> FALSE, table |-> DataFrame(<<>>, 0)]
Csv(df) == [ok |-> TRUE, table |-> df]

\* read_csv(file): [raised, ret]
read_csv(file) ==
    IF file.ok THEN [raised |-> None, ret |-> file.table]
    ELSE [raised |-> "ParserError", ret |-> file.table]

\* ------------------------------------------------------------ check_types
typeDict == [d \in {"float64", "int64"} |->
                IF d = "float64" THEN PyStr("Float") ELSE PyStr("Int")]

IsIdentifier(col) == col.name \in {"key", "input"}

\* faulty variant: keeps the key and input columns
AllDtypes(resultDf) ==
    [i \in 1..Len(resultDf.cols) |-> resultDf.cols[i].dtype]

\* resultDf.loc[:, ~resultDf.columns.isin(["key", "input"])].dtypes
NonIdentifierDtypes(resultDf) ==
    LET kept == SelectSeq(resultDf.cols, LAMBDA c : ~IsIdentifier(c))
    IN [i \in 1..Len(kept) |-> kept[i].dtype]

\* faulty variant: compares with the whole value of "Output Type"
OutputTypeWhole(metadata) ==
    IF ~HasKey(metadata, "Output Type")
    THEN [raised |-> "KeyError", ret |-> PyStr("")]
    ELSE [raised |-> None, ret |-> metadata["Output Type"]]

\* metadata["Output Type"][0]: [raised, ret]
OutputTypeOf(metadata) ==
    IF ~HasKey(metadata, "Output Type")
    THEN [raised |-> "KeyError", ret |-> PyStr("")]
    ELSE Index0(metadata["Output Type"])

\* the loop of check_types over dtypesLst from column i: [raised, count]
RECURSIVE CountMismatched(_, _, _, _)
CountMismatched(dtypesLst, metadata, i, count) ==
    IF i > Len(dtypesLst) THEN [raised |-> None, count |-> count]
    ELSE IF dtypesLst[i] \notin DOMAIN typeDict
         THEN [raised |-> "KeyError", count |-> count]
    ELSE LET ot == OutputTypeOf(metadata)
         IN IF ot.raised # None
            THEN [raised |-> ot.raised, count |-> count]
            ELSE CountMismatched(dtypesLst, metadata, i + 1,
                     IF typeDict[dtypesLst[i]] # ot.ret
                     THEN count + 1 ELSE count)

NoResult == [mismatched_types |-> 0, correct_shape |-> FALSE]

\* check_types(self, resultDf, metadata): [raised, ret]
check_types(resultDf, metadata) ==
    LET dtypesLst == NonIdentifierDtypes(resultDf)
        counted == CountMismatched(dtypesLst, metadata, 1, 0)
        n == Len(dtypesLst)
    IN IF counted.raised # None
       THEN [raised |-> counted.raised, ret |-> NoResult]
       ELSE IF n >= 1 /\ ~HasKey(metadata, "Output Shape")
       THEN [raised |-> "KeyError", ret |-> NoResult]
       ELSE LET correct_shape ==
                    IF n > 1 /\ metadata["Output Shape"] # PyStr("List")
                    THEN FALSE
                    ELSE IF n = 1 /\ metadata["Output Shape"] # PyStr("Single")
                    THEN FALSE
                    ELSE TRUE
            IN [raised |-> None,
                ret |-> [mismatched_types |-> counted.count,
                         correct_shape |-> correct_shape]]

\* ------------------------------------------------------------ stats, sizes
\* the numpy scalar type pandas reduces a column of this dtype to
NumpyScalar(dtype) == IF dtype = "int64" THEN "numpy.int64" ELSE "numpy.float64"

\* stats(self, result): [raised, ret]; ret holds, per column, the Python type
\* of each statistic (mean and std are numpy.float64, min, max and mode have
\* the column's own scalar type)
stats(result) ==
    LET loaded == read_csv(result)
        dat == loaded.ret
        kept == SelectSeq(dat.cols, LAMBDA c : ~IsIdentifier(c))
    IN IF loaded.raised # None
       THEN [raised |-> loaded.raised, ret |-> <<>>]
       ELSE IF ~({"key", "input"} \subseteq ColumnNames(dat))
       THEN [raised |-> "KeyError", ret |-> <<>>]
       ELSE IF \E i \in 1..Len(kept) : kept[i].dtype \notin DOMAIN typeDict
       THEN [raised |-> "TypeError", ret |-> <<>>]
       ELSE [raised |-> None,
             ret |-> [i \in 1..Len(kept) |->
                        [column |-> kept[i].name,
                         mean |-> "numpy.float64",
                         mode |-> NumpyScalar(kept[i].dtype),
                         min |-> NumpyScalar(kept[i].dtype),
                         max |-> NumpyScalar(kept[i].dtype),
                         std |-> "numpy.float64"]]]

\* get_file_sizes(self, input_df, output_df): the sizes are numpy floats, so
\* dividing by a length of 0 gives inf and raises nothing
get_file_sizes(input_df, output_df) ==
    [raised |-> None,
     ret |-> [avg_input_size |->
                  IF input_df.nrows = 0 THEN "inf" ELSE "finite",
              avg_output_size |->
                  IF output_df.nrows = 0 THEN "inf" ELSE "finite"]]

\* json.dumps(json_dict, indent=4): numpy.float64 is a float and serializes,
\* numpy.int64 raises TypeError; the text spans several lines
JsonText == <<"{", NL, "json_dict", NL, "}">>

json_dumps(json_dict) ==
    IF \E i \in 1..Len(json_dict.stats) :
           "numpy.int64" \in {json_dict.stats[i].mode, json_dict.stats[i].min,
                              json_dict.stats[i].max}
    THEN [raised |-> "TypeError", ret |-> <<>>]
    ELSE [raised |-> None, ret |-> JsonText]

\* ------------------------------------------------------------ upload_to_s3
\* what s3_client.upload_file does: succeeds, or raises one of these
Transports == {"ok", "ClientError", "EndpointConnectionError"}

\* upload_to_s3(json_dict, bucket, object_name): [raised, ret, effects];
\* only ClientError is caught
upload_to_s3(json_dict, object_name, transport) ==
    IF object_name = None /\ ~json_dict.has_model_id
    THEN [raised |-> "KeyError", ret |-> None, effects |-> <<>>]
    ELSE IF json_dumps(json_dict).raised # None
    THEN [raised |-> json_dumps(json_dict).raised, ret |-> None,
          effects |-> <<>>]
    ELSE IF transport = "ok"
    THEN [raised |-> None, ret |-> TRUE, effects |-> <<"upload_file">>]
    ELSE IF transport = "ClientError"
    THEN [raised |-> None, ret |-> FALSE,
          effects |-> <<"upload_file", "logging.error">>]
    ELSE [raised |-> transport, ret |-> None, effects |-> <<"upload_file">>]

\* ------------------------------------------------------------ track
\* The statements of track, in the order of the code.
\* faulty variant: the record is logged before it is complete
TrackOrderWriteEarly ==
    <<"read_csv_input", "read_csv_result", "model_id", "time_taken",
      "nan_count", "check_types", "write_persistent_file", "stats",
      "get_file_sizes", "get_peak_memory", "json_dumps", "upload_to_s3">>

\* faulty variant: the peak is read, and the tracer stopped, before stats
TrackOrderPeakEarly ==
    <<"read_csv_input", "read_csv_result", "model_id", "time_taken",
      "nan_count", "check_types", "get_peak_memory", "stats",
      "get_file_sizes", "json_dumps", "write_persistent_file",
      "upload_to_s3">>

TrackOrder ==
    <<"read_csv_input", "read_csv_result", "model_id", "time_taken",
      "nan_count", "check_types", "stats", "get_file_sizes",
      "get_peak_memory", "json_dumps", "write_persistent_file",
      "upload_to_s3">>

\* the locals of track before its first statement
NoLocals ==
    [input_dataframe |-> DataFrame(<<>>, 0),
     result_dataframe |-> DataFrame(<<>>, 0),
     json_dict |-> [has_model_id |-> FALSE, model_id |-> None, stats |-> <<>>],
     json_object |-> <<"json_object">>]

Raise(st, exc, step) == [st EXCEPT !.raised = exc, !.at = step]

\* One statement of track on the running state st =
\* [file, issued, self, tm, loc, raised, at, effects]; a = the arguments,
\* transport = what upload_file does if it is called.
TrackStep(step, st, a, transport) ==
    CASE step = "read_csv_input" ->
           LET r == read_csv(a.input)
           IN IF r.raised # None THEN Raise(st, r.raised, step)
              ELSE [st EXCEPT !.loc.input_dataframe = r.ret]
      [] step = "read_csv_result" ->
           LET r == read_csv(a.result)
           IN IF r.raised # None THEN Raise(st, r.raised, step)
              ELSE [st EXCEPT !.loc.result_dataframe = r.ret]
      [] step = "model_id" ->
           IF ~HasKey(a.meta, "metadata") THEN Raise(st, "KeyError", step)
           ELSE [st EXCEPT !.loc.json_dict.has_model_id = TRUE,
                           !.loc.json_dict.model_id =
                               IF HasKey(a.meta["metadata"], "Identifier")
                               THEN a.meta["metadata"]["Identifier"]
                               ELSE PyStr("Unknown")]
      [] step = "time_taken" ->
           IF st.self.time_start = None THEN Raise(st, "TypeError", step)
           ELSE st
      [] step = "nan_count" -> st
      [] step = "check_types" ->
           IF ~HasKey(a.meta, "metadata") THEN Raise(st, "KeyError", step)
           ELSE LET r == check_types(st.loc.result_dataframe,
                                     a.meta["metadata"])
                IN IF r.raised # None THEN Raise(st, r.raised, step) ELSE st
      [] step = "stats" ->
           LET r == stats(a.result)
           IN IF r.raised # None THEN Raise(st, r.raised, step)
              ELSE [st EXCEPT !.loc.json_dict.stats = r.ret]
      [] step = "get_file_sizes" ->
           LET r == get_file_sizes(st.loc.input_dataframe,
                                   st.loc.result_dataframe)
           IN IF r.raised # None THEN Raise(st, r.raised, step) ELSE st
      [] step = "get_peak_memory" ->
           LET r == get_peak_memory(st.self, st.tm)
           IN [st EXCEPT !.tm = r.tm,
                         !.effects = Append(@, "get_peak_memory")]
      [] step = "json_dumps" ->
           LET r == json_dumps(st.loc.json_dict)
           IN IF r.raised # None THEN Raise(st, r.raised, step)
              ELSE [st EXCEPT !.loc.json_object = r.ret]
      [] step = "write_persistent_file" ->
           [st EXCEPT !.file = write_persistent_file(@, st.loc.json_object),
                      !.issued = IF isfile(st.file)
                                 THEN Append(@, st.loc.json_object) ELSE @,
                      !.effects = Append(@, "write_persistent_file")]
      [] step = "upload_to_s3" ->
           LET r == upload_to_s3(st.loc.json_dict, None, transport)
           IN IF r.raised # None
              THEN [Raise(st, r.raised, step) EXCEPT
                        !.effects = @ \o r.effects]
              ELSE [st EXCEPT !.effects = @ \o r.effects]

\* the statements of order from the i-th on, until one raises
RECURSIVE RunSteps(_, _, _, _, _)
RunSteps(order, i, st, a, transport) ==
    IF i > Len(order) \/ st.raised # None THEN st
    ELSE RunSteps(order, i + 1, TrackStep(order[i], st, a, transport), a,
                  transport)

\* track(self, input, result, meta): the state it leaves
track(file, iss, self, tm, a, transport) ==
    RunSteps(TrackOrder, 1,
             [file |-> file, issued |-> iss, self |-> self, tm |-> tm,
              loc |-> NoLocals, raised |-> None, at |-> None,
              effects |-> <<>>],
             a, transport)

\* ------------------------------------------------------------ inputs
ModelIds == {"eos3b5e", "eos4e40"}

\* what callers pass to write_persistent_file: one line, a text of two lines
Contents == {<<"a">>, <<"b", NL, "c">>}

Dtypes == {"float64", "int64", "object"}

DataColumnName(i) ==
    CASE i = 1 -> "c1" [] i = 2 -> "c2" [] i = 3 -> "c3" [] OTHER -> "cN"

\* the data columns c1..cn of the given dtypes
DataColumns(dtypes) ==
    [i \in 1..Len(dtypes) |-> Column(DataColumnName(i), dtypes[i])]

DtypeSeqs == UNION {[1..n -> Dtypes] : n \in 0..MaxCols}

\* the output tables check_types is applied to: with or without a key and
\* an input column (of strings or of numbers), then 0..MaxCols data columns
OutputTables ==
    {DataFrame(k \o i \o DataColumns(d), 1) :
        k \in {<<>>, <<Column("key", "object")>>, <<Column("key", "int64")>>},
        i \in {<<>>, <<Column("input", "object")>>,
               <<Column("input", "float64")>>},
        d \in DtypeSeqs}

Missing == [t |-> "missing", s |-> "", items |-> <<>>]

OutputTypeValues ==
    {Missing, PyStr("Float"), PyStr("Int"), PyList(<<PyStr("Float")>>),
     PyList(<<PyStr("Int")>>), PyList(<<>>)}

OutputShapeValues ==
    {Missing, PyStr("List"), PyStr("Single"), PyStr("Matrix"),
     PyList(<<PyStr("List")>>)}

\* the metadata dict with these values (a Missing value: the key is absent)
Metadata(identifier, output_type, output_shape) ==
    LET given == [k \in {"Identifier", "Output Type", "Output Shape"} |->
                    CASE k = "Identifier" -> identifier
                      [] k = "Output Type" -> output_type
                      [] OTHER -> output_shape]
    IN [k \in {x \in DOMAIN given : given[x] # Missing} |-> given[k]]

Metadatas ==
    {Metadata(Missing, t, sh) : t \in OutputTypeValues, sh \in OutputShapeValues}

KeyInput == <<Column("key", "object"), Column("input", "object")>>

\* the files track is given as input and as result
InputFiles ==
    {BadCsv, Csv(DataFrame(KeyInput, 1))}

ResultFiles ==
    {BadCsv,
     Csv(DataFrame(KeyInput \o DataColumns(<<"float64">>), 1)),
     Csv(DataFrame(KeyInput \o DataColumns(<<"int64">>), 1)),
     Csv(DataFrame(KeyInput \o DataColumns(<<"object">>), 0)),
     Csv(DataFrame(DataColumns(<<"float64">>), 1))}

\* the meta argument of track: with or without its "metadata"
Metas ==
    {EmptyDict}
    \cup {[k \in {"metadata"} |-> md] :
            md \in {Metadata(PyStr("eos3b5e"), PyList(<<PyStr("Float")>>),
                             PyStr("Single")),
                    Metadata(Missing, PyList(<<PyStr("Float")>>),
                             PyStr("List")),
                    Metadata(PyStr("eos3b5e"), Missing, PyStr("Single"))}}

TrackArgs == [input : InputFiles, result : ResultFiles, meta : Metas]

\* the json_dict a direct caller of upload_to_s3 passes
JsonDicts ==
    {[has_model_id |-> TRUE, model_id |-> "eos3b5e", stats |-> <<>>],
     [has_model_id |-> FALSE, model_id |-> None, stats |-> <<>>],
     [has_model_id |-> TRUE, model_id |-> "eos3b5e",
      stats |-> stats(Csv(DataFrame(KeyInput \o DataColumns(<<"int64">>),
                                    1))).ret]}

\* ------------------------------------------------------------ Init
\* what a call returned: None, an int, a bool or the dict of check_types
NoValue == [type |-> "NoneType", int |-> 0, bool |-> FALSE, dict |-> NoResult]
IntValue(n) == [NoValue EXCEPT !.type = "int", !.int = n]
BoolValue(b) == [NoValue EXCEPT !.type = "bool", !.bool = b]
DictValue(d) == [NoValue EXCEPT !.type = "dict", !.dict = d]

NoArgs ==
    [existed |-> FALSE, windowOpen |-> FALSE, transport |-> None,
     resultDf |-> DataFrame(<<>>, 0), metadata |-> EmptyDict]

NoCall ==
    /\ lastOp = None
    /\ raised = None
    /\ retval = NoValue
    /\ effects = <<>>
    /\ failedAt = None

InitState ==
    /\ sessionFile = NoFile
    /\ archive = <<>>
    /\ issued = <<>>
    /\ openedFor = None
    /\ time_start = NewTracker.time_start
    /\ memory_usage_start = NewTracker.memory_usage_start
    /\ tracing = TracerOff.tracing
    /\ current = TracerOff.current
    /\ peak = TracerOff.peak
    /\ windowPeak = 0
    /\ NoCall

Init == InitState /\ args = NoArgs

\* the result of a call, as its caller sees it
Returned(op, exc, ret, eff, at, a) ==
    /\ lastOp' = op
    /\ raised' = exc
    /\ retval' = ret
    /\ effects' = eff
    /\ failedAt' = at
    /\ args' = a

Did(eff, what) == what \in {eff[i] : i \in 1..Len(eff)}

Tracer == [tracing |-> tracing, current |-> current, peak |-> peak]
Self == [time_start |-> time_start, memory_usage_start |-> memory_usage_start]

\* ------------------------------------------------------------ actions
OpenPersistentFile(model_id) ==
    /\ sessionFile' = open_persistent_file(model_id)
    /\ issued' = <<>>
    /\ openedFor' = model_id
    /\ Returned("open_persistent_file", None, NoValue, <<>>, None, NoArgs)
    /\ UNCHANGED <<archive, trackerVars, mallocVars>>

WritePersistentFile(contents) ==
    /\ Len(issued) < MaxWrites
    /\ sessionFile' = write_persistent_file(sessionFile, contents)
    /\ issued' = IF openedFor = None THEN issued
                  ELSE Append(issued, contents)
    /\ Returned("write_persistent_file", None, NoValue, <<>>, None,
                [NoArgs EXCEPT !.existed = isfile(sessionFile)])
    /\ UNCHANGED <<archive, openedFor, trackerVars, mallocVars>>

ClosePersistentFile ==
    \E r \in {close_persistent_file(sessionFile, archive)} :
       /\ sessionFile' = r.file
       /\ archive' = r.archive
       /\ Returned("close_persistent_file", r.raised, NoValue, <<>>, None,
                   [NoArgs EXCEPT !.existed = isfile(sessionFile)])
       /\ UNCHANGED <<issued, openedFor, trackerVars, mallocVars>>

StartTracking ==
    \E r \in {start_tracking(Self, Tracer)} :
       /\ time_start' = r.self.time_start
       /\ memory_usage_start' = r.self.memory_usage_start
       /\ tracing' = r.tm.tracing
       /\ current' = r.tm.current
       /\ peak' = r.tm.peak
       /\ windowPeak' = get_traced_memory(r.tm)[1]
       /\ Returned("start_tracking", None, NoValue, <<>>, None, NoArgs)
       /\ UNCHANGED sessionVars

\* the model run allocates: traced memory grows while tracing
Alloc ==
    /\ tracing
    /\ current < MaxLevel
    /\ current' = current + 1
    /\ peak' = Max(peak, current + 1)
    /\ windowPeak' = Max(windowPeak, current + 1)
    /\ Returned("alloc", None, NoValue, <<>>, None, NoArgs)
    /\ UNCHANGED <<tracing, sessionVars, trackerVars>>

\* the model run frees: traced memory shrinks, the peak stays
Free ==
    /\ tracing
    /\ current > 0
    /\ current' = current - 1
    /\ Returned("free", None, NoValue, <<>>, None, NoArgs)
    /\ UNCHANGED <<tracing, peak, windowPeak, sessionVars, trackerVars>>

GetPeakMemory ==
    \E r \in {get_peak_memory(Self, Tracer)} :
       /\ tracing' = r.tm.tracing
       /\ current' = r.tm.current
       /\ peak' = r.tm.peak
       /\ Returned("get_peak_memory", None, IntValue(r.ret), <<>>, None,
                   [NoArgs EXCEPT !.windowOpen = tracing])
       /\ UNCHANGED <<windowPeak, sessionVars, trackerVars>>

\* track(input, result, meta); what upload_file does is drawn only when
\* the call reaches it
Track(a) ==
    \E r0 \in {track(sessionFile, issued, Self, Tracer, a, "ok")} :
    \E t \in (IF Did(r0.effects, "upload_file") THEN Transports ELSE {"ok"}) :
    \E r \in {IF t = "ok" THEN r0
              ELSE track(sessionFile, issued, Self, Tracer, a, t)} :
       /\ Len(issued) < MaxWrites
       /\ sessionFile' = r.file
       /\ issued' = r.issued
       /\ time_start' = r.self.time_start
       /\ memory_usage_start' = r.self.memory_usage_start
       /\ tracing' = r.tm.tracing
       /\ current' = r.tm.current
       /\ peak' = r.tm.peak
       /\ Returned("track", r.raised, NoValue, r.effects, r.at,
                   [NoArgs EXCEPT !.transport =
                        IF Did(r.effects, "upload_file") THEN t ELSE None])
       /\ UNCHANGED <<archive, openedFor, windowPeak>>

UploadToS3(json_dict, object_name, transport) ==
    \E r \in {upload_to_s3(json_dict, object_name, transport)} :
       /\ Returned("upload_to_s3", r.raised,
                   IF r.raised = None THEN BoolValue(r.ret) ELSE NoValue,
                   r.effects, None,
                   [NoArgs EXCEPT !.transport =
                        IF Did(r.effects, "upload_file")
                        THEN transport ELSE None])
       /\ UNCHANGED <<sessionVars, trackerVars, mallocVars>>

Next ==
    \/ \E m \in ModelIds : OpenPersistentFile(m)
    \/ \E c \in Contents : WritePersistentFile(c)
    \/ ClosePersistentFile
    \/ StartTracking
    \/ Alloc
    \/ Free
    \/ GetPeakMemory
    \/ \E a \in TrackArgs : Track(a)
    \/ \E j \in JsonDicts, o \in {None, "object"}, t \in Transports :
           UploadToS3(j, o, t)

Spec == Init /\ [][Next]_vars

\* ------------------------------------------------------------ check_types alone
\* check_types is a function of its arguments: they are drawn at the start
\* and the one action applies it.
CheckTypesArgs ==
    {[NoArgs EXCEPT !.resultDf = df, !.metadata = md] :
        df \in OutputTables, md \in Metadatas}

InitCheckTypes == InitState /\ args \in CheckTypesArgs

CheckTypes ==
    \E r \in {check_types(args.resultDf, args.metadata)} :
       /\ lastOp = None
       /\ Returned("check_types", r.raised,
                   IF r.raised = None THEN DictValue(r.ret) ELSE NoValue,
                   <<>>, None, args)
       /\ UNCHANGED <<sessionVars, trackerVars, mallocVars>>

NextCheckTypes == CheckTypes

SpecCheckTypes == InitCheckTypes /\ [][NextCheckTypes]_vars

\* ------------------------------------------------------------ properties
Terminated(contents) == contents \o <<NL>>

\* the text of a session opened for model_id after these writes
SessionText(model_id, writes) ==
    SessionHeader(model_id)
    \o Concat([i \in 1..Len(writes) |-> Terminated(writes[i])])

HeaderLine(model_id) == <<"Session started for model: ", model_id>>

HasNewline(contents) == \E i \in 1..Len(contents) : contents[i] = NL

\* C1 as stated: a write_persistent_file call made while the session file
\* does not exist leaves it absent and raises nothing, and while the file
\* exists its lines are the header line followed by the contents written
\* since the open, one line each, in order.
C1_OneLineEach ==
    /\ lastOp = "write_persistent_file" => raised = None
    /\ (lastOp = "write_persistent_file" /\ ~args.existed)
           => sessionFile = NoFile
    /\ openedFor = None => ~isfile(sessionFile)
    /\ isfile(sessionFile)
           => ReadLines(sessionFile.text) = <<HeaderLine(openedFor)>> \o issued

\* C1 amended: a write_persistent_file call made while the session file
\* does not exist leaves it absent and raises nothing; while the file exists
\* its text is the header line followed by each content written since the
\* open, each ended by a newline, in order; the contents are one line each
\* when none of them holds a newline.
C1_WrittenInOrder ==
    /\ lastOp = "write_persistent_file" => raised = None
    /\ (lastOp = "write_persistent_file" /\ ~args.existed)
           => sessionFile = NoFile
    /\ openedFor = None => ~isfile(sessionFile)
    /\ isfile(sessionFile)
           => /\ sessionFile.text = SessionText(openedFor, issued)
              /\ (\A i \in 1..Len(issued) : ~HasNewline(issued[i]))
                    => ReadLines(sessionFile.text)
                           = <<HeaderLine(openedFor)>> \o issued

\* C1 happens: two contents, the first of two lines, written since the open
C1_Witness ==
    /\ lastOp = "write_persistent_file"
    /\ isfile(sessionFile)
    /\ issued = << <<"b", NL, "c">>, <<"a">> >>

AssemblySteps ==
    {"read_csv_input", "read_csv_result", "model_id", "time_taken",
     "nan_count", "check_types", "stats", "get_file_sizes",
     "get_peak_memory", "json_dumps"}

\* C2: a track call that fails in a step of the assembly (up to the JSON
\* serialization) raises the error to its caller, leaves the session file
\* as it was and has neither written the record nor called the upload.
C2_AllOrNothing ==
    [][(lastOp' = "track" /\ failedAt' \in AssemblySteps)
          => /\ raised' # None
             /\ sessionFile' = sessionFile
             /\ ~Did(effects', "write_persistent_file")
             /\ ~Did(effects', "upload_file")]_vars

\* C2 happens: track failed at the serialization with a session file open
C2_Witness ==
    /\ lastOp = "track"
    /\ failedAt = "json_dumps"
    /\ raised = "TypeError"
    /\ isfile(sessionFile)

Position(eff, what) ==
    IF Did(eff, what)
    THEN CHOOSE i \in 1..Len(eff) :
             eff[i] = what /\ \A j \in 1..(i - 1) : eff[j] # what
    ELSE 0

\* C3 as stated: when upload_file fails, upload_to_s3 and track raise
\* nothing, upload_to_s3 returns False, and track has appended the record
\* to the session file before it called the upload.
C3_UploadFailureCaught ==
    (lastOp \in {"track", "upload_to_s3"} /\ args.transport \notin {None, "ok"})
       => /\ raised = None
          /\ lastOp = "upload_to_s3" => retval = BoolValue(FALSE)
          /\ lastOp = "track"
                => /\ Did(effects, "write_persistent_file")
                   /\ Position(effects, "write_persistent_file")
                          < Position(effects, "upload_file")

\* what the code has for the NotStartedError of the specification
NotStarted(exc) == exc \in {"NotStartedError", "TypeError"}

\* C4 as stated: on a tracker never started, the elapsed time of track and
\* get_peak_memory each fail instead of returning a value.
C4_NotStarted ==
    /\ (lastOp = "get_peak_memory" /\ time_start = None) => NotStarted(raised)
    /\ (lastOp = "track" /\ time_start = None
          /\ failedAt \notin {"read_csv_input", "read_csv_result", "model_id"})
          => failedAt = "time_taken" /\ NotStarted(raised)

\* the indexes of the columns of df that are neither key nor input
DataIndexes(df) ==
    {i \in 1..Len(df.cols) : df.cols[i].name \notin {"key", "input"}}

CanonicalLabel(dtype) ==
    IF dtype = "float64" THEN PyStr("Float") ELSE PyStr("Int")

CheckTypesReturned == lastOp = "check_types" /\ raised = None

\* C5 as stated: mismatched_types counts the non-identifier columns whose
\* canonical label differs from metadata["Output Type"].
C5_MismatchedAgainstValue ==
    CheckTypesReturned
       => retval.dict.mismatched_types
             = Cardinality({i \in DataIndexes(args.resultDf) :
                   CanonicalLabel(args.resultDf.cols[i].dtype)
                       # args.metadata["Output Type"]})

\* C5 amended: mismatched_types counts the non-identifier columns whose
\* canonical label differs from metadata["Output Type"][0], the first
\* element of the declared type; for Float columns and Output Type
\* ["Float"] the count is 0.
C5_MismatchedAgainstFirst ==
    CheckTypesReturned
       => /\ retval.dict.mismatched_types
                = Cardinality({i \in DataIndexes(args.resultDf) :
                      CanonicalLabel(args.resultDf.cols[i].dtype)
                          # Index0(args.metadata["Output Type"]).ret})
          /\ (/\ DataIndexes(args.resultDf) # {}
              /\ \A i \in DataIndexes(args.resultDf) :
                     args.resultDf.cols[i].dtype = "float64"
              /\ args.metadata["Output Type"] = PyList(<<PyStr("Float")>>))
                => retval.dict.mismatched_types = 0

\* C5 happens: key, input, a Float and an Int column against ["Float"]
C5_Witness ==
    /\ CheckTypesReturned
    /\ args.resultDf.cols = <<Column("key", "object"),
                              Column("input", "object"),
                              Column("c1", "float64"), Column("c2", "int64")>>
    /\ args.metadata["Output Type"] = PyList(<<PyStr("Float")>>)
    /\ retval.dict.mismatched_types = 1

\* C6: when check_types returns for a table with at least one
\* non-identifier column, correct_shape is true exactly when there are
\* several such columns and Output Shape is "List", or one and "Single".
C6_Shape ==
    (CheckTypesReturned /\ DataIndexes(args.resultDf) # {})
       => LET n == Cardinality(DataIndexes(args.resultDf))
              shape == args.metadata["Output Shape"]
          IN retval.dict.correct_shape
                <=> \/ n > 1 /\ shape = PyStr("List")
                    \/ n = 1 /\ shape = PyStr("Single")

\* C6 happens: one data column beside numeric key and input, "Single"
C6_Witness ==
    /\ CheckTypesReturned
    /\ args.resultDf.cols = <<Column("key", "int64"),
                              Column("input", "float64"),
                              Column("c1", "float64")>>
    /\ args.metadata["Output Shape"] = PyStr("Single")
    /\ retval.dict.correct_shape

\* C7 as stated: for a table of key and/or input columns only, whatever the
\* Output Shape, correct_shape is false.
C7_ZeroColumns ==
    (/\ CheckTypesReturned
     /\ args.resultDf.cols # <<>>
     /\ DataIndexes(args.resultDf) = {})
       => ~retval.dict.correct_shape

\* text is the session's text followed by an error count line and a
\* warning count line
EndsWithCounts(text, session) ==
    LET n == Len(session)
        rest == ReadLines(SubSeq(text, n + 1, Len(text)))
    IN /\ Len(text) > n
       /\ SubSeq(text, 1, n) = session
       /\ Len(rest) = 2
       /\ Len(rest[1]) = 2 /\ rest[1][1] = "Error count: "
       /\ Len(rest[2]) = 2 /\ rest[2][1] = "Warning count: "

\* C8 as stated: closing an existing session file raises nothing, archives
\* the session's lines followed by the error count and the warning count
\* lines, and leaves no file at the session path, so that a write after it
\* is dropped; closing without a session file does nothing.
C8_CloseArchives ==
    /\ lastOp = "close_persistent_file"
          => IF args.existed
             THEN /\ raised = None
                  /\ ~isfile(sessionFile)
                  /\ archive # <<>>
                  /\ EndsWithCounts(archive[Len(archive)],
                                    SessionText(openedFor, issued))
             ELSE raised = None /\ ~isfile(sessionFile)
    /\ (lastOp = "write_persistent_file" /\ ~args.existed)
          => sessionFile = NoFile

\* C9 as stated: get_peak_memory on an open window returns the highest
\* traced level since the most recent start_tracking minus the baseline of
\* that start_tracking, which is >= 0, and closes the window.
C9_PeakSinceStart ==
    (lastOp = "get_peak_memory" /\ args.windowOpen)
       => /\ raised = None
          /\ retval = IntValue(windowPeak - memory_usage_start)
          /\ retval.int >= 0
          /\ ~tracing

EarlySteps ==
    {"read_csv_input", "read_csv_result", "model_id", "time_taken",
     "nan_count", "check_types", "stats", "get_file_sizes"}

Count(eff, what) == Cardinality({i \in 1..Len(eff) : eff[i] = what})

\* C10: a track call that reaches the write of the record has called
\* get_peak_memory once, before the write, and the tracer is stopped; a
\* track call that fails in an earlier step leaves the tracer, time_start
\* and memory_usage_start as they were.
C10_WindowClosedLast ==
    [][lastOp' = "track"
          => /\ Did(effects', "write_persistent_file")
                   => /\ Count(effects', "get_peak_memory") = 1
                      /\ Position(effects', "get_peak_memory")
                             < Position(effects', "write_persistent_file")
                      /\ ~tracing'
             /\ failedAt' \in EarlySteps
                   => UNCHANGED <<tracing, current, peak, time_start,
                                  memory_usage_start>>]_vars

\* C10 happens: track failed at stats with the window still open
C10_Witness ==
    /\ lastOp = "track"
    /\ failedAt = "stats"
    /\ tracing
    /\ time_start # None
    /\ peak > 0

====
